---- MODULE Spec2Model ----
(***************************************************************************)
(* A model of src/app.py: the per-page difference highlighter              *)
(* (highlight_differences), the multi-page loop (process_pdfs) and the     *)
(* comparison handler of main with its temporary files and progress bar.   *)
(*                                                                         *)
(* Spec    runs highlight_differences statement by statement on one page   *)
(*         pair, the overlay scan one (x, y) iteration per step.           *)
(* SpecRun runs one click of the compare button in main, including         *)
(*         process_pdfs.                                                   *)
(***************************************************************************)
EXTENDS Integers, Sequences, FiniteSets

(* ------------------------------ bounds --------------------------------- *)
\* largest page width / height in pixels
MaxW == 3
MaxH == 3
\* largest number of pixels of a page that are not in its background colour
MaxChanged == 2
\* largest number of pages of an uploaded document
MaxPages == 3

(* --------------------------- values ------------------------------------ *)
None == "None"

Min(a, b) == IF a < b THEN a ELSE b

\* page colours (RGB) the inputs are drawn from; their grey levels are
\* 76, 106 and 107, so both sides of the threshold occur
Red == <<255, 0, 0>>
Grey106 == <<106, 106, 106>>
Grey107 == <<107, 107, 107>>
Palette == {Red, Grey106, Grey107}

Pixels(w, h) == (0 .. (w - 1)) \X (0 .. (h - 1))

Raster(w, h, f) == [width |-> w, height |-> h, px |-> f]

UniformRaster(w, h, c) == Raster(w, h, [p \in Pixels(w, h) |-> c])

TwoToneRaster(w, h, bg, fg, D) ==
    Raster(w, h, [p \in Pixels(w, h) |-> IF p \in D THEN fg ELSE bg])

SmallSubsets(S) == {D \in SUBSET S : Cardinality(D) <= MaxChanged}

ZeroArea(img) == img.width = 0 \/ img.height = 0

(* ----------------------- highlight_differences ------------------------- *)
VARIABLES
    pc,                  \* position in highlight_differences
    base_image,          \* argument
    check_image,         \* argument
    base_image_resized,
    check_image_resized,
    base_gray,
    check_gray,
    diff,
    diff_mask,
    overlay,
    scan,                \* <<x, y>> of the next iteration of the nested loops
    result,              \* the returned image
    error                \* the exception that left the function, if any

hlvars == <<pc, base_image, check_image, base_image_resized, check_image_resized,
            base_gray, check_gray, diff, diff_mask, overlay, scan, result, error>>

(* ------------------------- main / process_pdfs ------------------------- *)
VARIABLES
    mpc,                 \* position in the handler of main / process_pdfs
    base_file,           \* the uploaded base file
    check_file,          \* the uploaded check file
    tmp_files,           \* temporary files that exist on disk
    base_images,
    check_images,
    total_pages,
    i,                   \* loop variable of process_pdfs
    results,
    progress_calls,      \* values passed to the progress bar, in order
    page_reads,          \* list subscripts evaluated: <<"base"|"check", index>>
    shown                \* what the handler reported: None, "success" or "error"

runvars == <<mpc, base_file, check_file, tmp_files, base_images, check_images,
             total_pages, i, results, progress_calls, page_reads, shown>>

vars == <<hlvars, runvars>>

(* ------------------- operators of highlight_differences ---------------- *)
\* mutant of TargetSize: the larger of the two sizes
TargetSize_Max(b, c) ==
    <<IF b.width > c.width THEN b.width ELSE c.width,
      IF b.height > c.height THEN b.height ELSE c.height>>

\* min_width, min_height
TargetSize(b, c) == <<Min(b.width, c.width), Min(b.height, c.height)>>

ColoursOf(img) == {img.px[p] : p \in DOMAIN img.px}

\* Image.resize(size, Image.LANCZOS) returns a copy when the size is unchanged
\* and raises ValueError for any other target below 1x1
ResizeRaises(img, size) ==
    /\ ~(img.width = size[1] /\ img.height = size[2])
    /\ (size[1] < 1 \/ size[2] < 1)

\* The rasters Image.resize may return.  The filter's arithmetic is not
\* computed: every assignment of the input's colours to the output pixels is a
\* possible outcome (a uniform page stays that page).
Resize(img, size) ==
    IF img.width = size[1] /\ img.height = size[2] THEN {img}
    ELSE {Raster(size[1], size[2], f) :
            f \in [Pixels(size[1], size[2]) -> ColoursOf(img)]}

\* cv2.cvtColor(..., COLOR_RGB2GRAY) on 8-bit pixels: fixed-point luminance
GrayOf(c) == (c[1] * 9798 + c[2] * 19235 + c[3] * 3735 + 16384) \div 32768

CvtColor(img) ==
    Raster(img.width, img.height, [p \in DOMAIN img.px |-> GrayOf(img.px[p])])

\* cv2.absdiff on uint8
AbsDiffPixel(a, b) == IF a > b THEN a - b ELSE b - a

AbsDiff(a, b) ==
    Raster(a.width, a.height, [p \in DOMAIN a.px |-> AbsDiffPixel(a.px[p], b.px[p])])

\* mutants of ThresholdPixel: an inclusive comparison; THRESH_BINARY_INV
ThresholdPixel_Inclusive(v) == IF v >= 30 THEN 255 ELSE 0
ThresholdPixel_Inverted(v) == IF v > 30 THEN 0 ELSE 255

\* cv2.threshold(diff, 30, 255, cv2.THRESH_BINARY)
ThresholdPixel(v) == IF v > 30 THEN 255 ELSE 0

Threshold(d) ==
    Raster(d.width, d.height, [p \in DOMAIN d.px |-> ThresholdPixel(d.px[p])])

Transparent == <<0, 0, 0, 0>>
Primary == <<255, 165, 0, 120>>
Secondary == <<255, 165, 0, 60>>
White == <<255, 255, 255, 255>>

\* Image.new('RGBA', size, colour)
NewImage(w, h, c) == UniformRaster(w, h, c)

\* mutant of Point: the fill's alpha is added to the alpha already there
Point_Blend(img, p, fill) ==
    [img EXCEPT !.px[p] =
        <<fill[1], fill[2], fill[3], Min(255, img.px[p][4] + fill[4])>>]

\* draw.point(p, fill): the pixel is overwritten, not blended
Point(img, p, fill) == [img EXCEPT !.px[p] = fill]

\* mutant of Offsets: the neighbour below is left out
Offsets_NoDown == << <<-1, 0>>, <<1, 0>>, <<0, -1>> >>

Offsets == << <<-1, 0>>, <<1, 0>>, <<0, -1>>, <<0, 1>> >>

InBounds(n, w, h) == 0 <= n[1] /\ n[1] < w /\ 0 <= n[2] /\ n[2] < h

RECURSIVE PaintNeighbours(_, _, _)
PaintNeighbours(ov, p, k) ==
    IF k > Len(Offsets) THEN ov
    ELSE LET n == <<p[1] + Offsets[k][1], p[2] + Offsets[k][2]>>
         IN  PaintNeighbours(IF InBounds(n, ov.width, ov.height)
                                THEN Point(ov, n, Secondary) ELSE ov,
                             p, k + 1)

\* the body of the nested loops for one (x, y)
ScanBody(ov, mask, p) ==
    IF mask.px[p] > 0 THEN PaintNeighbours(Point(ov, p, Primary), p, 1) ELSE ov

\* the (x, y) after p in "for y in range(height): for x in range(width)"
NextScan(p, w) == IF p[1] + 1 < w THEN <<p[1] + 1, p[2]>> ELSE <<0, p[2] + 1>>

\* convert('RGBA') / convert('RGB')
ToRGBA(c) == <<c[1], c[2], c[3], 255>>
ToRGB(c) == <<c[1], c[2], c[3]>>

ShiftForDiv255(a) == ((a \div 256) + a) \div 256

\* Image.alpha_composite on one pixel (8-bit fixed point, 7 precision bits)
AlphaCompositePixel(dst, src) ==
    IF src[4] = 0 THEN dst
    ELSE IF dst[4] = 0 THEN src
    ELSE LET blend == dst[4] * (255 - src[4])
             outa255 == src[4] * 255 + blend
             coef1 == (src[4] * 255 * 255 * 128) \div outa255
             coef2 == 255 * 128 - coef1
             ch(k) == ShiftForDiv255(src[k] * coef1 + dst[k] * coef2 + 128 * 128) \div 128
         IN  <<ch(1), ch(2), ch(3), ShiftForDiv255(outa255 + 128)>>

AlphaComposite(dst, src) ==
    Raster(dst.width, dst.height,
           [p \in DOMAIN dst.px |-> AlphaCompositePixel(dst.px[p], src.px[p])])

ConvertRGBA(img) ==
    Raster(img.width, img.height, [p \in DOMAIN img.px |-> ToRGBA(img.px[p])])

ConvertRGB(img) ==
    Raster(img.width, img.height, [p \in DOMAIN img.px |-> ToRGB(img.px[p])])

\* lines 67-70 for a resized base page and a finished overlay
Compose(base, ov) ==
    LET base_rgba == ConvertRGBA(base)
        background == NewImage(base.width, base.height, White)
    IN  ConvertRGB(AlphaComposite(AlphaComposite(background, base_rgba), ov))

(* --------------------- highlight_differences, by step ------------------ *)
RunIdle ==
    /\ mpc = "idle" /\ base_file = None /\ check_file = None /\ tmp_files = {}
    /\ base_images = None /\ check_images = None /\ total_pages = None
    /\ i = None /\ results = None /\ progress_calls = <<>>
    /\ page_reads = {} /\ shown = None

HlLocalsUnset ==
    /\ base_image_resized = None /\ check_image_resized = None
    /\ base_gray = None /\ check_gray = None /\ diff = None /\ diff_mask = None
    /\ overlay = None /\ scan = None /\ result = None /\ error = None

\* two uniform pages of any sizes, empty ones included
InitPages ==
    \E wb \in 0 .. MaxW, hb \in 0 .. MaxH, wc \in 0 .. MaxW, hc \in 0 .. MaxH :
      \E cb \in Palette, cc \in Palette :
        /\ base_image = UniformRaster(wb, hb, cb)
        /\ check_image = UniformRaster(wc, hc, cc)

\* a uniform base page and a two-coloured check page of the same size, with
\* up to MaxChanged pixels in the second colour
InitEdited ==
    \E w \in 1 .. MaxW, h \in 1 .. MaxH :
      \E cb \in Palette, bg \in Palette, fg \in Palette,
         D \in SmallSubsets(Pixels(w, h)) :
        /\ base_image = UniformRaster(w, h, cb)
        /\ check_image = TwoToneRaster(w, h, bg, fg, D)

\* the same two-coloured page twice
InitSame ==
    \E w \in 1 .. MaxW, h \in 1 .. MaxH :
      \E bg \in Palette, fg \in Palette, D \in SmallSubsets(Pixels(w, h)) :
        /\ base_image = TwoToneRaster(w, h, bg, fg, D)
        /\ check_image = base_image

Init ==
    /\ pc = "resize_base"
    /\ (InitPages \/ InitEdited \/ InitSame)
    /\ HlLocalsUnset
    /\ RunIdle

\* line 39 (with 37-38)
ResizeBase ==
    /\ pc = "resize_base"
    /\ ~ResizeRaises(base_image, TargetSize(base_image, check_image))
    /\ base_image_resized' \in Resize(base_image, TargetSize(base_image, check_image))
    /\ pc' = "resize_check"
    /\ UNCHANGED <<base_image, check_image, check_image_resized, base_gray, check_gray,
                   diff, diff_mask, overlay, scan, result, error, runvars>>

\* line 40
ResizeCheck ==
    /\ pc = "resize_check"
    /\ ~ResizeRaises(check_image, TargetSize(base_image, check_image))
    /\ check_image_resized' \in Resize(check_image, TargetSize(base_image, check_image))
    /\ pc' = "cvt"
    /\ UNCHANGED <<base_image, check_image, base_image_resized, base_gray, check_gray,
                   diff, diff_mask, overlay, scan, result, error, runvars>>

\* lines 39-40 when Image.resize raises
ResizeFails ==
    /\ \/ pc = "resize_base"
          /\ ResizeRaises(base_image, TargetSize(base_image, check_image))
       \/ pc = "resize_check"
          /\ ResizeRaises(check_image, TargetSize(base_image, check_image))
    /\ pc' = "raised"
    /\ error' = "ValueError"
    /\ UNCHANGED <<base_image, check_image, base_image_resized, check_image_resized,
                   base_gray, check_gray, diff, diff_mask, overlay, scan, result, runvars>>

\* lines 43-44
CvtGray ==
    /\ pc = "cvt"
    /\ ~ZeroArea(base_image_resized)
    /\ base_gray' = CvtColor(base_image_resized)
    /\ check_gray' = CvtColor(check_image_resized)
    /\ pc' = "absdiff"
    /\ UNCHANGED <<base_image, check_image, base_image_resized, check_image_resized,
                   diff, diff_mask, overlay, scan, result, error, runvars>>

\* line 43 on an empty array: cv2.cvtColor raises cv2.error
CvtGrayFails ==
    /\ pc = "cvt"
    /\ ZeroArea(base_image_resized)
    /\ pc' = "raised"
    /\ error' = "cv2.error"
    /\ UNCHANGED <<base_image, check_image, base_image_resized, check_image_resized,
                   base_gray, check_gray, diff, diff_mask, overlay, scan, result, runvars>>

\* line 47
TakeAbsDiff ==
    /\ pc = "absdiff"
    /\ diff' = AbsDiff(base_gray, check_gray)
    /\ pc' = "threshold"
    /\ UNCHANGED <<base_image, check_image, base_image_resized, check_image_resized,
                   base_gray, check_gray, diff_mask, overlay, scan, result, error, runvars>>

\* line 48
TakeThreshold ==
    /\ pc = "threshold"
    /\ diff_mask' = Threshold(diff)
    /\ pc' = "overlay"
    /\ UNCHANGED <<base_image, check_image, base_image_resized, check_image_resized,
                   base_gray, check_gray, diff, overlay, scan, result, error, runvars>>

\* lines 51-56
NewOverlay ==
    /\ pc = "overlay"
    /\ overlay' = NewImage(base_image_resized.width, base_image_resized.height, Transparent)
    /\ scan' = <<0, 0>>
    /\ pc' = "scan"
    /\ UNCHANGED <<base_image, check_image, base_image_resized, check_image_resized,
                   base_gray, check_gray, diff, diff_mask, result, error, runvars>>

\* lines 57-64: one iteration of the inner loop; the loops end after the last pixel
ScanPixel ==
    /\ pc = "scan"
    /\ overlay' = ScanBody(overlay, diff_mask, scan)
    /\ scan' = NextScan(scan, diff_mask.width)
    /\ pc' = IF scan'[2] < diff_mask.height THEN "scan" ELSE "compose"
    /\ UNCHANGED <<base_image, check_image, base_image_resized, check_image_resized,
                   base_gray, check_gray, diff, diff_mask, result, error, runvars>>

\* lines 67-70
Composite ==
    /\ pc = "compose"
    /\ result' = Compose(base_image_resized, overlay)
    /\ pc' = "return"
    /\ UNCHANGED <<base_image, check_image, base_image_resized, check_image_resized,
                   base_gray, check_gray, diff, diff_mask, overlay, scan, error, runvars>>

\* line 72
Return ==
    /\ pc = "return"
    /\ pc' = "done"
    /\ UNCHANGED <<base_image, check_image, base_image_resized, check_image_resized,
                   base_gray, check_gray, diff, diff_mask, overlay, scan, result, error,
                   runvars>>

Next ==
    \/ ResizeBase
    \/ ResizeCheck
    \/ ResizeFails
    \/ CvtGray
    \/ CvtGrayFails
    \/ TakeAbsDiff
    \/ TakeThreshold
    \/ NewOverlay
    \/ ScanPixel
    \/ Composite
    \/ Return

Spec == Init /\ [][Next]_vars

(* ------------------------ main and process_pdfs ------------------------ *)
HlIdle ==
    /\ pc = "idle" /\ base_image = None /\ check_image = None /\ HlLocalsUnset

\* an uploaded file: a PDF of some number of pages, or bytes that are no PDF
Uploads == [valid : {TRUE}, pages : 0 .. MaxPages] \cup [valid : {FALSE}, pages : {0}]

\* convert_from_path: one image per page of the document
ConvertFromPath(doc, n) == [k \in 1 .. n |-> <<doc, k>>]

\* mutant of TotalPages: the longer document decides
TotalPages_Max(nb, nc) == IF nb > nc THEN nb ELSE nc

\* line 81
TotalPages(nb, nc) == Min(nb, nc)

\* range(total_pages) still has index k
InRange(k, n) == k < n

\* mutant of ProgressValue: the offset of 10 is lost
ProgressValue_NoOffset(k, n) == (80 * k) \div n

\* line 89: int(10 + (80 * i / total_pages))
ProgressValue(k, n) == 10 + ((80 * k) \div n)

\* the image highlight_differences returns for a page pair
HighlightOf(b, c) == [base |-> b, check |-> c]

InitRun ==
    /\ HlIdle
    /\ mpc = "start"
    /\ base_file \in Uploads
    /\ check_file \in Uploads
    /\ tmp_files = {} /\ base_images = None /\ check_images = None
    /\ total_pages = None /\ i = None /\ results = None
    /\ progress_calls = <<>> /\ page_reads = {} /\ shown = None

\* line 110
ProgressStart ==
    /\ mpc = "start"
    /\ progress_calls' = Append(progress_calls, 0)
    /\ mpc' = "prepare"
    /\ UNCHANGED <<base_file, check_file, tmp_files, base_images, check_images,
                   total_pages, i, results, page_reads, shown, hlvars>>

\* line 113
ProgressPrepare ==
    /\ mpc = "prepare"
    /\ progress_calls' = Append(progress_calls, 5)
    /\ mpc' = "tmp_base"
    /\ UNCHANGED <<base_file, check_file, tmp_files, base_images, check_images,
                   total_pages, i, results, page_reads, shown, hlvars>>

\* lines 114-116: the file is created with delete=False and written
SaveTmpBase ==
    /\ mpc = "tmp_base"
    /\ tmp_files' = tmp_files \cup {"tmp_base"}
    /\ mpc' = "tmp_check"
    /\ UNCHANGED <<base_file, check_file, base_images, check_images, total_pages, i,
                   results, progress_calls, page_reads, shown, hlvars>>

\* lines 118-120
SaveTmpCheck ==
    /\ mpc = "tmp_check"
    /\ tmp_files' = tmp_files \cup {"tmp_check"}
    /\ mpc' = "call"
    /\ UNCHANGED <<base_file, check_file, base_images, check_images, total_pages, i,
                   results, progress_calls, page_reads, shown, hlvars>>

\* lines 114-120 when the operating system refuses: creating the file raises
\* (no file is left) or writing it raises (the created file is left)
SaveTmpFails ==
    /\ mpc \in {"tmp_base", "tmp_check"}
    /\ \E created \in BOOLEAN :
         tmp_files' = IF created THEN tmp_files \cup {mpc} ELSE tmp_files
    /\ mpc' = "except"
    /\ UNCHANGED <<base_file, check_file, base_images, check_images, total_pages, i,
                   results, progress_calls, page_reads, shown, hlvars>>

\* lines 123, 77
ProgressConvert ==
    /\ mpc = "call"
    /\ progress_calls' = Append(progress_calls, 10)
    /\ mpc' = "convert_base"
    /\ UNCHANGED <<base_file, check_file, tmp_files, base_images, check_images,
                   total_pages, i, results, page_reads, shown, hlvars>>

\* line 78
ConvertBase ==
    /\ mpc = "convert_base"
    /\ base_file.valid
    /\ base_images' = ConvertFromPath("base", base_file.pages)
    /\ mpc' = "convert_check"
    /\ UNCHANGED <<base_file, check_file, tmp_files, check_images, total_pages, i,
                   results, progress_calls, page_reads, shown, hlvars>>

\* line 79
ConvertCheck ==
    /\ mpc = "convert_check"
    /\ check_file.valid
    /\ check_images' = ConvertFromPath("check", check_file.pages)
    /\ mpc' = "count"
    /\ UNCHANGED <<base_file, check_file, tmp_files, base_images, total_pages, i,
                   results, progress_calls, page_reads, shown, hlvars>>

\* lines 78-79 on a file that is no PDF: convert_from_path raises
ConvertFails ==
    /\ \/ mpc = "convert_base" /\ ~base_file.valid
       \/ mpc = "convert_check" /\ ~check_file.valid
    /\ mpc' = "except"
    /\ UNCHANGED <<base_file, check_file, tmp_files, base_images, check_images,
                   total_pages, i, results, progress_calls, page_reads, shown, hlvars>>

\* lines 81-88
CountPages ==
    /\ mpc = "count"
    /\ total_pages' = TotalPages(Len(base_images), Len(check_images))
    /\ results' = <<>>
    /\ i' = 0
    /\ mpc' = "loop"
    /\ UNCHANGED <<base_file, check_file, tmp_files, base_images, check_images,
                   progress_calls, page_reads, shown, hlvars>>

\* lines 88-90
LoopProgress ==
    /\ mpc = "loop"
    /\ InRange(i, total_pages)
    /\ progress_calls' = Append(progress_calls, ProgressValue(i, total_pages))
    /\ mpc' = "compare"
    /\ UNCHANGED <<base_file, check_file, tmp_files, base_images, check_images,
                   total_pages, i, results, page_reads, shown, hlvars>>

\* lines 92-93; a subscript past the end of a list raises IndexError
ComparePage ==
    /\ mpc = "compare"
    /\ page_reads' = page_reads \cup {<<"base", i>>, <<"check", i>>}
    /\ IF i < Len(base_images) /\ i < Len(check_images)
       THEN /\ results' = Append(results, HighlightOf(base_images[i + 1], check_images[i + 1]))
            /\ i' = i + 1
            /\ mpc' = "loop"
       ELSE /\ mpc' = "except"
            /\ UNCHANGED <<results, i>>
    /\ UNCHANGED <<base_file, check_file, tmp_files, base_images, check_images,
                   total_pages, progress_calls, shown, hlvars>>

\* lines 95-96
ProgressDone ==
    /\ mpc = "loop"
    /\ ~InRange(i, total_pages)
    /\ progress_calls' = Append(progress_calls, 100)
    /\ mpc' = "unlink_base"
    /\ UNCHANGED <<base_file, check_file, tmp_files, base_images, check_images,
                   total_pages, i, results, page_reads, shown, hlvars>>

\* line 126
UnlinkBase ==
    /\ mpc = "unlink_base"
    /\ tmp_files' = tmp_files \ {"tmp_base"}
    /\ mpc' = "unlink_check"
    /\ UNCHANGED <<base_file, check_file, base_images, check_images, total_pages, i,
                   results, progress_calls, page_reads, shown, hlvars>>

\* line 127
UnlinkCheck ==
    /\ mpc = "unlink_check"
    /\ tmp_files' = tmp_files \ {"tmp_check"}
    /\ mpc' = "display"
    /\ UNCHANGED <<base_file, check_file, base_images, check_images, total_pages, i,
                   results, progress_calls, page_reads, shown, hlvars>>

\* lines 130-157; combine_images (line 15) raises ValueError on an empty list
Display ==
    /\ mpc = "display"
    /\ IF results = <<>>
       THEN mpc' = "except" /\ shown' = shown
       ELSE mpc' = "finished" /\ shown' = "success"
    /\ UNCHANGED <<base_file, check_file, tmp_files, base_images, check_images,
                   total_pages, i, results, progress_calls, page_reads, hlvars>>

\* lines 159-160
Except ==
    /\ mpc = "except"
    /\ shown' = "error"
    /\ mpc' = "finished"
    /\ UNCHANGED <<base_file, check_file, tmp_files, base_images, check_images,
                   total_pages, i, results, progress_calls, page_reads, hlvars>>

NextRun ==
    \/ ProgressStart
    \/ ProgressPrepare
    \/ SaveTmpBase
    \/ SaveTmpCheck
    \/ SaveTmpFails
    \/ ProgressConvert
    \/ ConvertBase
    \/ ConvertCheck
    \/ ConvertFails
    \/ CountPages
    \/ LoopProgress
    \/ ComparePage
    \/ ProgressDone
    \/ UnlinkBase
    \/ UnlinkCheck
    \/ Display
    \/ Except

SpecRun == InitRun /\ [][NextRun]_vars

(* ------------------------------ properties ----------------------------- *)
Thresholded == pc \in {"overlay", "scan", "compose", "return", "done"}
OverlayExists == pc \in {"scan", "compose", "return", "done"}
ScanFinished == pc \in {"compose", "return", "done"}
Returned == pc \in {"return", "done"}

MaskTrue == {p \in DOMAIN diff_mask.px : diff_mask.px[p] > 0}
AlphaAt(p) == overlay.px[p][4]

\* the pixels of the raster at distance 1 from p along one axis
Adjacent(p, q) ==
    \/ p[1] = q[1] /\ (p[2] = q[2] + 1 \/ q[2] = p[2] + 1)
    \/ p[2] = q[2] /\ (p[1] = q[1] + 1 \/ q[1] = p[1] + 1)
NeighboursOf(p) == {q \in DOMAIN overlay.px : Adjacent(p, q)}

\* C1: once the scan over all pixels has finished, every pixel whose mask
\* value is true carries the primary highlight (alpha 120) in the overlay.
C1_PrimaryKeepsAlpha120 ==
    ScanFinished => \A p \in MaskTrue : overlay.px[p] = Primary

\* C2: the mask is true exactly where the absolute difference of the two grey
\* levels is greater than 30; a difference of 30 is not marked, 31 is marked.
C2_StrictThreshold ==
    Thresholded =>
      \A p \in DOMAIN diff_mask.px :
        LET b == base_gray.px[p]
            c == check_gray.px[p]
            d == IF b >= c THEN b - c ELSE c - b
        IN  /\ diff_mask.px[p] \in {0, 255}
            /\ (diff_mask.px[p] > 0) <=> (d > 30)
            /\ d = 30 => diff_mask.px[p] = 0
            /\ d = 31 => diff_mask.px[p] = 255

C2_Witness ==
    /\ Thresholded
    /\ \E p \in DOMAIN diff_mask.px, q \in DOMAIN diff_mask.px :
         /\ base_gray.px[p] - check_gray.px[p] \in {30, -30}
         /\ diff_mask.px[p] = 0
         /\ base_gray.px[q] - check_gray.px[q] \in {31, -31}
         /\ diff_mask.px[q] = 255

HasSize(img, w, h) ==
    img.width = w /\ img.height = h /\ DOMAIN img.px = Pixels(w, h)

\* C3: for non-empty inputs both compared rasters, the mask and the result are
\* (min of the widths) x (min of the heights); equal-sized inputs keep their
\* size; 200x300 against 210x290 gives 200x290.
C3_NormalizedSize ==
    LET w == Min(base_image.width, check_image.width)
        h == Min(base_image.height, check_image.height)
    IN  /\ TargetSize([width |-> 200, height |-> 300],
                      [width |-> 210, height |-> 290]) = <<200, 290>>
        /\ (pc # "idle" /\ ~ZeroArea(base_image) /\ ~ZeroArea(check_image)) =>
             /\ pc # "raised"
             /\ pc # "resize_base" => HasSize(base_image_resized, w, h)
             /\ pc \notin {"resize_base", "resize_check"} =>
                  HasSize(check_image_resized, w, h)
             /\ Thresholded => HasSize(diff_mask, w, h)
             /\ Returned => HasSize(result, w, h)
             /\ (Returned /\ base_image.width = check_image.width
                          /\ base_image.height = check_image.height) =>
                  HasSize(result, base_image.width, base_image.height)

C3_Witness ==
    /\ pc = "done"
    /\ base_image.width = 2 /\ base_image.height = 3
    /\ check_image.width = 3 /\ check_image.height = 2
    /\ HasSize(result, 2, 2)

\* C5 as stated: with exactly one mask-true pixel p the finished overlay has
\* alpha 120 at p, alpha 60 at each in-bounds 4-neighbour of p, of which there
\* are 2, 3 or 4, and is transparent everywhere else.
C5_SinglePixel_Original ==
    (ScanFinished /\ Cardinality(MaskTrue) = 1) =>
      \A p \in MaskTrue :
        /\ AlphaAt(p) = 120
        /\ \A q \in NeighboursOf(p) : AlphaAt(q) = 60
        /\ Cardinality(NeighboursOf(p)) \in {2, 3, 4}
        /\ \A q \in DOMAIN overlay.px \ (NeighboursOf(p) \cup {p}) :
             overlay.px[q] = Transparent

\* C5 (amended): as above, with 2, 3 or 4 neighbours on a raster at least 2
\* pixels wide and high, and 0, 1 or 2 on a raster 1 pixel wide or high.
C5_SinglePixel ==
    (ScanFinished /\ Cardinality(MaskTrue) = 1) =>
      \A p \in MaskTrue :
        /\ overlay.px[p] = Primary
        /\ \A q \in NeighboursOf(p) : overlay.px[q] = Secondary
        /\ IF overlay.width >= 2 /\ overlay.height >= 2
             THEN Cardinality(NeighboursOf(p)) \in {2, 3, 4}
             ELSE Cardinality(NeighboursOf(p)) \in {0, 1, 2}
        /\ \A q \in DOMAIN overlay.px \ (NeighboursOf(p) \cup {p}) :
             overlay.px[q] = Transparent

C5_Witness ==
    /\ pc = "done"
    /\ overlay.width = 3 /\ overlay.height = 3
    /\ MaskTrue = {<<1, 1>>}
    /\ AlphaAt(<<1, 1>>) = 120
    /\ {q \in DOMAIN overlay.px : AlphaAt(q) = 60}
         = {<<0, 1>>, <<2, 1>>, <<1, 0>>, <<1, 2>>}

\* C6: for identical inputs the mask has no true pixel, the overlay stays
\* transparent at every pixel, and the result is the base raster on white.
C6_EqualInputs ==
    (pc # "idle" /\ base_image = check_image) =>
      /\ Thresholded => MaskTrue = {}
      /\ OverlayExists => \A p \in DOMAIN overlay.px : overlay.px[p] = Transparent
      /\ Returned =>
           /\ HasSize(result, base_image.width, base_image.height)
           /\ \A p \in DOMAIN result.px :
                /\ result.px[p] = ToRGB(AlphaCompositePixel(White, ToRGBA(base_image.px[p])))
                /\ result.px[p] = base_image.px[p]

C6_Witness ==
    /\ pc = "done"
    /\ base_image = check_image
    /\ Cardinality(ColoursOf(base_image)) = 2
    /\ result.px = base_image.px

\* C7: a zero-width or zero-height input makes normalization fail with
\* InvalidInputError.
C7_InvalidInputError ==
    (pc = "raised" /\ (ZeroArea(base_image) \/ ZeroArea(check_image))) =>
      error = "InvalidInputError"

\* C8: every overlay alpha is 0, 60 or 120 at every step of the scan, and a
\* mask-false pixel with k >= 1 mask-true in-bounds 4-neighbours ends with
\* alpha exactly 60.
C8_NoAccumulation ==
    /\ OverlayExists => \A p \in DOMAIN overlay.px : AlphaAt(p) \in {0, 60, 120}
    /\ ScanFinished =>
         \A q \in DOMAIN overlay.px \ MaskTrue :
           NeighboursOf(q) \cap MaskTrue # {} => overlay.px[q] = Secondary

C8_Witness ==
    /\ pc = "done"
    /\ \E q \in DOMAIN overlay.px \ MaskTrue :
         /\ Cardinality(NeighboursOf(q) \cap MaskTrue) = 4
         /\ AlphaAt(q) = 60
    /\ \E q \in DOMAIN overlay.px \ MaskTrue :
         /\ Cardinality(NeighboursOf(q) \cap MaskTrue) = 2
         /\ AlphaAt(q) = 60

ProcessReturned == mpc \in {"unlink_base", "unlink_check", "display"} \/ shown = "success"
InLoop == mpc \in {"loop", "compare"}

\* C4: process_pdfs returns exactly min(Nb, Nc) results, the k-th computed
\* from base page k and check page k, and no page with a greater index of
\* either list is ever subscripted.
C4_MinPagesCompared ==
    LET n == Min(base_file.pages, check_file.pages)
    IN  /\ mpc # "idle" =>
             page_reads \subseteq ({"base", "check"} \X (0 .. (n - 1)))
        /\ InLoop =>
             /\ Len(results) <= n
             /\ \A k \in 1 .. Len(results) :
                  results[k] = HighlightOf(<<"base", k>>, <<"check", k>>)
        /\ ProcessReturned =>
             /\ Len(results) = n
             /\ \A k \in 1 .. n :
                  results[k] = HighlightOf(<<"base", k>>, <<"check", k>>)
             /\ page_reads = {"base", "check"} \X (0 .. (n - 1))

C4_Witness ==
    /\ mpc = "finished"
    /\ shown = "success"
    /\ base_file.pages = 2
    /\ check_file.pages = 3
    /\ Len(results) = 2
    /\ <<"check", 1>> \in page_reads
    /\ <<"check", 2>> \notin page_reads

\* C9: when the handler has finished, on the normal path and on every path
\* through the except branch, no temporary file of the run is left.
C9_TempFilesDeleted ==
    mpc = "finished" => tmp_files = {}

\* C10: the values passed to the progress bar are integers in 0..100, never
\* decrease, are 0, 5, 10, then 10 + floor(80 k / total_pages) per page, then
\* 100; the page formula is only evaluated for total_pages > 0; and 100 is
\* passed only after all min(Nb, Nc) page pairs have been processed.
C10_ProgressMonotone ==
    /\ \A k \in 1 .. Len(progress_calls) : progress_calls[k] \in 0 .. 100
    /\ \A k \in 1 .. (Len(progress_calls) - 1) :
         progress_calls[k] <= progress_calls[k + 1]
    /\ \A k \in 1 .. Len(progress_calls) :
         /\ k = 1 => progress_calls[k] = 0
         /\ k = 2 => progress_calls[k] = 5
         /\ k = 3 => progress_calls[k] = 10
         /\ (k > 3 /\ progress_calls[k] # 100) =>
              /\ total_pages > 0
              /\ k - 4 < total_pages
              /\ progress_calls[k] * total_pages <= 10 * total_pages + 80 * (k - 4)
              /\ (progress_calls[k] + 1) * total_pages > 10 * total_pages + 80 * (k - 4)
         /\ progress_calls[k] = 100 =>
              /\ k = Len(progress_calls)
              /\ k = 4 + Min(base_file.pages, check_file.pages)
              /\ Len(results) = Min(base_file.pages, check_file.pages)
    /\ mpc = "compare" => total_pages > 0

C10_Witness ==
    /\ mpc = "finished"
    /\ shown = "success"
    /\ Len(results) = 3
    /\ progress_calls = <<0, 5, 10, 10, 36, 63, 100>>

====
